---- MODULE Spec2Model ----
(***************************************************************************)
(* DefaultMetaPlugin (src/plugins/default_meta/__init__.py): an MkDocs     *)
(* plugin whose on_config hook stores the site URL and resets the keyword  *)
(* list, and whose on_page_markdown hook derives a title and description   *)
(* from the page's file name and merges a list of default meta tags into   *)
(* the page's meta-tag list.                                               *)
(*                                                                         *)
(* Python values are modelled as follows.                                  *)
(*   - A string that the code only compares, joins or formats is a TLA+    *)
(*     string.  A string the code takes apart (a path, a URL) is a         *)
(*     sequence of one-character strings; Str turns it into a string.      *)
(*   - An Optional value is a sequence of length at most one: None is      *)
(*     <<>> and the value v is <<v>>.                                      *)
(*   - A meta tag (a dict) is a record with the fields of the dict:        *)
(*     [name, content] or [property, content].                             *)
(*   - A list object lives in heap, under its identity; a field holding a  *)
(*     list holds the identity, so that sharing a list is visible.         *)
(*                                                                         *)
(* format_language_name is called by no hook and has no effect on the      *)
(* state, so it has no action here.                                        *)
(***************************************************************************)
EXTENDS Naturals, Sequences, FiniteSets, TLC

VARIABLES
    site_url,       \* self.site_url: Optional[str], as characters
    keywords,       \* self.keywords: the identity of the list it refers to
    heap,           \* the list objects: identity -> list of strings
    src_path,       \* page.file.src_path of each page, as characters
    meta,           \* page.meta.get('meta') of each page: Optional[list of tags]
    front_matter,   \* page.meta.get('meta') of each page as the host supplied it
    frame,          \* the last hook call: its arguments, locals and entry state
    log,            \* the pages rendered since the last on_config, in call order
    builds,         \* the number of on_config calls so far
    steps           \* the number of hook calls so far

vars == <<site_url, keywords, heap, src_path, meta, front_matter, frame, log, builds, steps>>

\* The most hook calls (on_config and on_page_markdown together) of a run.
MaxSteps == 5

None == <<>>
Some(v) == <<v>>

----------------------------------------------------------------------------
(* Strings as characters *)

RECURSIVE Str(_)
Str(cs) == IF cs = <<>> THEN "" ELSE Head(cs) \o Str(Tail(cs))

\* str.rfind(ch): the last index of ch (1-based), 0 when there is none.
RFind(s, ch) ==
    LET hits == {i \in 1..Len(s) : s[i] = ch}
    IN  IF hits = {} THEN 0 ELSE CHOOSE i \in hits : \A j \in hits : j <= i

\* os.path.basename(p): what follows the last '/'.
Basename(p) == SubSeq(p, RFind(p, "/") + 1, Len(p))

\* os.path.splitext(p)[0]: p without its extension. The extension starts at the
\* last dot, unless only dots stand between the last '/' and that dot.
SplitextRoot(p) ==
    LET sepIndex == RFind(p, "/")
        dotIndex == RFind(p, ".")
    IN  IF /\ dotIndex > sepIndex
           /\ \E k \in (sepIndex + 1)..(dotIndex - 1) : p[k] # "."
        THEN SubSeq(p, 1, dotIndex - 1)
        ELSE p

\* str.replace(old, new): every occurrence of old, left to right, not overlapping.
RECURSIVE Replace(_, _, _)
Replace(s, old, new) ==
    IF Len(s) < Len(old) THEN s
    ELSE IF SubSeq(s, 1, Len(old)) = old
         THEN new \o Replace(SubSeq(s, Len(old) + 1, Len(s)), old, new)
         ELSE <<Head(s)>> \o Replace(Tail(s), old, new)

\* sep.join(list)
RECURSIVE Join(_, _)
Join(sep, list) ==
    IF list = <<>> THEN ""
    ELSE IF Len(list) = 1 THEN list[1]
    ELSE list[1] \o sep \o Join(sep, Tail(list))

\* f"{v}" of an Optional[str]: None prints as 'None'.
Format(v) == IF v = None THEN <<"N", "o", "n", "e">> ELSE v[1]

----------------------------------------------------------------------------
(* The class constants *)

LANGUAGES ==
    ("cpp" :> "C++") @@ ("c" :> "C") @@ ("csharp" :> "C#") @@ ("css" :> "CSS") @@
    ("dart" :> "Dart") @@ ("go" :> "Go") @@ ("html" :> "HTML") @@ ("java" :> "Java") @@
    ("javascript" :> "JavaScript") @@ ("json" :> "JSON") @@ ("kotlin" :> "Kotlin") @@
    ("markdown" :> "Markdown") @@ ("objective-c" :> "Objective-C") @@ ("php" :> "PHP") @@
    ("python" :> "Python") @@ ("ruby" :> "Ruby") @@ ("rust" :> "Rust") @@
    ("scala" :> "Scala") @@ ("shell" :> "Shell") @@ ("sql" :> "SQL") @@
    ("swift" :> "Swift") @@ ("typescript" :> "TypeScript")

PAGE_TITLES ==
    ("index" :> "Home") @@ ("about" :> "About") @@ ("contributing" :> "Contributing") @@
    ("foundation" :> "Foundational Code Standards")

\* The literal of DEFAULT_KEYWORDS; the list object itself is heap[DefaultList].
DEFAULT_KEYWORDS ==
    << "Coding Standards", "Programming Best Practices", "Coding Guidelines",
       "Software Development", "Code Quality", "Software Engineering Principles",
       "Code Review Standards", "Code Style", "Source Code formatting",
       "Programming Language Style", "Clean Code Principles", "Development Guidelines",
       "Best Coding Practices", "Coding Style Guides", "Software Craftsmanship",
       "Code Consistency", "GoatBytes.IO", "GoatStyles", "GoatBytes" >>

SITE_DESC ==
    "GoatStyles is an authoritative resource dedicated to promoting "
    \o "best practices and consistency in coding across various programming "
    \o "languages. As a comprehensive style guide repository created by "
    \o "GoatBytes.IO, it aims to elevate code quality and readability for "
    \o "developers worldwide."

\* The default of config.get('site_url', ...).
DefaultSiteUrl ==
    << "h","t","t","p","s",":","/","/","s","t","y","l","e","s",".",
       "g","o","a","t","b","y","t","e","s",".","i","o" >>

\* "/assets/img/goatstyles.png"
ImagePath ==
    << "/","a","s","s","e","t","s","/","i","m","g","/",
       "g","o","a","t","s","t","y","l","e","s",".","p","n","g" >>

----------------------------------------------------------------------------
(* List objects *)

\* The class attribute DEFAULT_KEYWORDS and the list the instance owns.
DefaultList == "DEFAULT_KEYWORDS"
OwnList == "self.keywords"

\* list.copy(): a new list object with the elements of src. The list the instance
\* owned before is unreachable afterwards, so the new object takes its place.
\* The slip of assigning the list instead of copying it: self.keywords names the
\* class attribute's own list.
ListAlias(h, src) == [heap |-> h, ref |-> src]

ListCopy(h, src) == [heap |-> [h EXCEPT ![OwnList] = h[src]], ref |-> OwnList]

\* list.extend(items), in place, on the object ref names.
ListExtend(h, ref, items) == [h EXCEPT ![ref] = h[ref] \o items]

----------------------------------------------------------------------------
(* The helpers of the plugin *)

\* The slip of building the three keywords in another order.
get_language_keywords_reordered(language) ==
    << language \o " Syntax Rules",
       language \o " Style Guide",
       language \o " Coding Conventions" >>

\* get_language_keywords(language)
get_language_keywords(language) ==
    << language \o " Style Guide",
       language \o " Syntax Rules",
       language \o " Coding Conventions" >>

\* str.capitalize() of a stem, as format_language_name falls back to it; the
\* stems of the model that are in neither table.
Capitalize(base) == IF base = "unknown-lang" THEN "Unknown-lang" ELSE base

\* The slip of treating every stem outside PAGE_TITLES as a language, with
\* format_language_name's capitalized stem for the ones LANGUAGES lacks.
format_page_title_and_description_any_language(h, ref, filename) ==
    LET base == Str(SplitextRoot(filename))
    IN  IF base \in DOMAIN PAGE_TITLES
        THEN [title |-> PAGE_TITLES[base], description |-> SITE_DESC, heap |-> h]
        ELSE LET lang == IF base \in DOMAIN LANGUAGES THEN LANGUAGES[base]
                          ELSE Capitalize(base)
             IN  [title |-> lang \o " Code Style Guide",
                  description |-> "Explore the official " \o lang \o " coding conventions "
                                  \o "and best practices used by GoatBytes.IO.",
                  heap |-> ListExtend(h, ref, get_language_keywords(lang))]

\* format_page_title_and_description(filename), on the heap h with self.keywords
\* naming the list ref: the title and the description it returns, and the heap it
\* leaves.
format_page_title_and_description(h, ref, filename) ==
    LET base == Str(SplitextRoot(filename))
    IN  IF base \in DOMAIN PAGE_TITLES
        THEN [title |-> PAGE_TITLES[base], description |-> SITE_DESC, heap |-> h]
        ELSE IF base \in DOMAIN LANGUAGES
        THEN LET lang == LANGUAGES[base]
             IN  [title |-> lang \o " Code Style Guide",
                  description |-> "Explore the official " \o lang \o " coding conventions "
                                  \o "and best practices used by GoatBytes.IO.",
                  heap |-> ListExtend(h, ref, get_language_keywords(lang))]
        ELSE [title |-> "GoatStyles Documentation", description |-> SITE_DESC, heap |-> h]

\* image.replace("//assets", "/assets")
NormalizeImage(image) ==
    Replace(image, <<"/", "/", "a", "s", "s", "e", "t", "s">>,
                   <<"/", "a", "s", "s", "e", "t", "s">>)

\* generate_default_meta(title, description, image), reading self.keywords (the
\* list kw) and self.site_url (url).
generate_default_meta(title, description, image, kw, url) ==
    LET img == Str(NormalizeImage(image))
    IN  << [name |-> "description", content |-> Some(description)],
           [name |-> "keywords", content |-> Some(Join(", ", kw))],
           [property |-> "og:type", content |-> Some("website")],
           [property |-> "og:url", content |-> IF url = None THEN None ELSE Some(Str(url[1]))],
           [property |-> "og:site_name", content |-> Some("GoatStyles")],
           [property |-> "og:title", content |-> Some(title)],
           [property |-> "og:description", content |-> Some(description)],
           [property |-> "og:image", content |-> Some(img)],
           [property |-> "og:image:type", content |-> Some("image/png")],
           [property |-> "og:image:width", content |-> Some("1200")],
           [property |-> "og:image:height", content |-> Some("620")],
           [name |-> "twitter:card", content |-> Some("summary_large_image")],
           [name |-> "twitter:title", content |-> Some(title)],
           [name |-> "twitter:description", content |-> Some(description)],
           [name |-> "twitter:image", content |-> Some(img)] >>

\* tag in list
InList(tag, list) == \E i \in 1..Len(list) : list[i] = tag

\* The slip of extending the list with every default tag.
MergeDefaultsUnfiltered(existing, defaults) ==
    LET list == IF existing = None THEN <<>> ELSE existing[1]
    IN  list \o defaults

\* page.meta.setdefault('meta', []).extend(
\*     [tag for tag in defaults if tag not in page.meta['meta']])
\* on the Optional list existing: the list the page holds afterwards.
MergeDefaults(existing, defaults) ==
    LET list == IF existing = None THEN <<>> ELSE existing[1]
    IN  list \o SelectSeq(defaults, LAMBDA tag : ~InList(tag, list))

\* config.get('site_url', 'https://styles.goatbytes.io') on the dict config: the
\* default only when the dict has no such key.
ConfigGetSiteUrl(config) ==
    IF config.has_site_url THEN config.site_url ELSE Some(DefaultSiteUrl)

----------------------------------------------------------------------------
(* The inputs *)

\* A site of two pages: one whose path and front matter vary, and a C++ page
\* without meta tags in its front matter.
Pages == {"p1", "p2"}

\* "python.md", "objective-c.md", "about.md", "unknown-lang.md"
SrcPaths ==
    { <<"p","y","t","h","o","n",".","m","d">>,
      <<"o","b","j","e","c","t","i","v","e","-","c",".","m","d">>,
      <<"a","b","o","u","t",".","m","d">>,
      <<"u","n","k","n","o","w","n","-","l","a","n","g",".","m","d">> }

\* "languages/cpp.md"
CppPath == <<"l","a","n","g","u","a","g","e","s","/","c","p","p",".","m","d">>

\* What an author's front matter gives as page.meta['meta']: nothing, an empty
\* list, or a list with at most one tag for each key.
FrontMatters ==
    { None,
      Some(<<>>),
      Some(<< [property |-> "og:type", content |-> Some("website")],
              [name |-> "description", content |-> Some("Author description")] >>),
      Some(<< [property |-> "og:image", content |-> Some("https://example.com/custom.png")],
              [name |-> "keywords", content |-> Some("my, keywords")],
              [property |-> "og:title", content |-> Some("Custom Title")] >>) }

\* The configuration records the host passes to on_config: without a site_url
\* key, with the key holding None, and with the key holding a URL
\* ("https://styles.goatbytes.io/" and "https://styles.goatbytes.io//").
Configs ==
    { [has_site_url |-> FALSE, site_url |-> None],
      [has_site_url |-> TRUE, site_url |-> None],
      [has_site_url |-> TRUE, site_url |-> Some(DefaultSiteUrl \o <<"/">>)],
      [has_site_url |-> TRUE, site_url |-> Some(DefaultSiteUrl \o <<"/", "/">>)] }

NoConfig == [has_site_url |-> FALSE, site_url |-> None]

----------------------------------------------------------------------------
(* The state machine *)

\* __init__, and the pages as the host built them
Init ==
    /\ site_url = None
    /\ keywords = OwnList
    /\ heap = (DefaultList :> DEFAULT_KEYWORDS) @@ (OwnList :> <<>>)
    /\ \E path \in SrcPaths : src_path = ("p1" :> path) @@ ("p2" :> CppPath)
    /\ \E fm \in FrontMatters : front_matter = ("p1" :> fm) @@ ("p2" :> None)
    /\ meta = front_matter
    /\ frame = [op |-> "__init__", prev_op |-> "", page |-> "", config |-> NoConfig,
                title |-> "", description |-> "", image |-> <<>>, defaults |-> <<>>,
                keywords_before |-> <<>>, meta_before |-> None]
    /\ log = <<>>
    /\ builds = 0
    /\ steps = 0

\* The slip of on_config keeping the keyword list of the build before.
on_config_keeping_keywords(config) ==
    /\ steps < MaxSteps
    /\ site_url' = ConfigGetSiteUrl(config)
    /\ frame' = [op |-> "on_config", prev_op |-> frame.op, page |-> "", config |-> config,
                 title |-> "", description |-> "", image |-> <<>>, defaults |-> <<>>,
                 keywords_before |-> heap[keywords], meta_before |-> None]
    /\ log' = <<>>
    /\ builds' = builds + 1
    /\ steps' = steps + 1
    /\ UNCHANGED <<heap, keywords, src_path, meta, front_matter>>

\* on_config(config)
on_config(config) ==
    /\ steps < MaxSteps
    /\ LET copy == ListCopy(heap, DefaultList)
       IN  /\ site_url' = ConfigGetSiteUrl(config)
           /\ heap' = copy.heap
           /\ keywords' = copy.ref
    /\ frame' = [op |-> "on_config", prev_op |-> frame.op, page |-> "", config |-> config,
                 title |-> "", description |-> "", image |-> <<>>, defaults |-> <<>>,
                 keywords_before |-> heap[keywords], meta_before |-> None]
    /\ log' = <<>>
    /\ builds' = builds + 1
    /\ steps' = steps + 1
    /\ UNCHANGED <<src_path, meta, front_matter>>

\* on_page_markdown(markdown, page, config, files). The host fires on_config
\* before the page events of a build, so a page is rendered once on_config has run.
on_page_markdown(page) ==
    /\ steps < MaxSteps
    /\ builds > 0
    /\ LET default_image == Format(site_url) \o ImagePath
           r == format_page_title_and_description(heap, keywords, Basename(src_path[page]))
           defaults == generate_default_meta(r.title, r.description, default_image,
                                             r.heap[keywords], site_url)
       IN  /\ heap' = r.heap
           /\ meta' = [meta EXCEPT ![page] = Some(MergeDefaults(meta[page], defaults))]
           /\ frame' = [op |-> "on_page_markdown", prev_op |-> frame.op, page |-> page,
                        config |-> NoConfig,
                        title |-> r.title, description |-> r.description,
                        image |-> NormalizeImage(default_image), defaults |-> defaults,
                        keywords_before |-> heap[keywords], meta_before |-> meta[page]]
    /\ log' = Append(log, page)
    /\ steps' = steps + 1
    /\ UNCHANGED <<site_url, keywords, src_path, front_matter, builds>>

Next ==
    \/ \E config \in Configs : on_config(config)
    \/ \E page \in Pages : on_page_markdown(page)

Spec == Init /\ [][Next]_vars

----------------------------------------------------------------------------
(* What the properties speak of *)

\* The discriminator key of a tag: the value of its 'name' or 'property' field.
Key(tag) == IF "name" \in DOMAIN tag THEN tag.name ELSE tag.property

\* The list an Optional list stands for.
ListOf(m) == IF m = None THEN <<>> ELSE m[1]

\* The places of a list whose tag has key k.
Places(list, k) == {i \in 1..Len(list) : Key(list[i]) = k}

Keys(list) == {Key(list[i]) : i \in 1..Len(list)}

\* The keys whose content the merge is to refresh.
Refreshable ==
    {"description", "og:title", "og:description", "twitter:title", "twitter:description"}

\* The default tag of key k in the list defaults.
DefaultOf(defaults, k) == defaults[CHOOSE i \in 1..Len(defaults) : Key(defaults[i]) = k]

\* The last call was the page hook.
Rendered == frame.op = "on_page_markdown"

\* The meta-tag list of the rendered page before and after the hook.
Before == ListOf(frame.meta_before)
After == ListOf(meta[frame.page])

\* The stem of the rendered page's file name.
Stem == Str(SplitextRoot(Basename(src_path[frame.page])))

\* The hook has run twice in succession on the same page, with no on_config
\* between the two runs.
RenderedTwice ==
    /\ Rendered
    /\ frame.prev_op = "on_page_markdown"
    /\ Len(log) >= 2
    /\ log[Len(log)] = log[Len(log) - 1]

\* C1: every page's meta-tag list holds at most one tag for each discriminator
\* key.
C1_AtMostOneTagPerKey ==
    \A p \in Pages : \A k \in Keys(ListOf(meta[p])) :
        Cardinality(Places(ListOf(meta[p]), k)) <= 1

\* C2: after the hook, a tag with a refreshable key that the page already held
\* is at the same place, holds the newly derived default content of its key, and
\* no tag with that key was added.
C2_RefreshableOverwritten ==
    Rendered =>
        \A i \in 1..Len(Before) :
            Key(Before[i]) \in Refreshable =>
                /\ Key(After[i]) = Key(Before[i])
                /\ After[i].content = DefaultOf(frame.defaults, Key(Before[i])).content
                /\ Cardinality(Places(After, Key(Before[i])))
                       = Cardinality(Places(Before, Key(Before[i])))

\* C3: after the hook, for a non-refreshable default key of which the page
\* already held a tag with a content other than the default's, the tags with
\* that key, and their places, are those from before the hook.
C3_AuthorTagUntouched ==
    Rendered =>
        \A i \in 1..Len(Before) :
            LET k == Key(Before[i])
            IN  (/\ k \notin Refreshable
                 /\ k \in Keys(frame.defaults)
                 /\ Before[i].content # DefaultOf(frame.defaults, k).content)
                => /\ Places(After, k) = Places(Before, k)
                   /\ \A j \in Places(Before, k) : After[j] = Before[j]

\* The tags with a non-refreshable key among those of the author's front matter.
AuthorTags(p) ==
    {ListOf(front_matter[p])[i] : i \in {j \in 1..Len(ListOf(front_matter[p])) :
                                           Key(ListOf(front_matter[p])[j]) \notin Refreshable}}

\* C4: when the hook has run twice in succession on the same page, the second
\* run has added no tag with a refreshable key, and the page holds no fewer of the
\* author's tags with non-refreshable keys than its front matter did.
C4_MergeIdempotent ==
    RenderedTwice =>
        /\ \A k \in Refreshable :
               Cardinality(Places(After, k)) <= Cardinality(Places(Before, k))
        /\ Cardinality({i \in 1..Len(After) : After[i] \in AuthorTags(frame.page)})
               >= Cardinality({i \in 1..Len(ListOf(front_matter[frame.page])) :
                                  ListOf(front_matter[frame.page])[i] \in AuthorTags(frame.page)})

\* The hook has run twice in succession on a page whose front matter holds a
\* tag with a refreshable key and one with a non-refreshable key.
C4_Witness ==
    /\ RenderedTwice
    /\ Keys(ListOf(front_matter[frame.page])) \cap Refreshable # {}
    /\ AuthorTags(frame.page) # {}

\* C5: on_config leaves the keyword list equal to the default keywords, in
\* length and order; a second on_config right after the first leaves what the
\* first left; and the list of the class attribute DEFAULT_KEYWORDS never changes.
C5_ConfigResetsKeywords ==
    /\ heap[DefaultList] = DEFAULT_KEYWORDS
    /\ frame.op = "on_config" =>
           /\ heap[keywords] = DEFAULT_KEYWORDS
           /\ Len(heap[keywords]) = 19
    /\ (frame.op = "on_config" /\ frame.prev_op = "on_config") =>
           heap[keywords] = frame.keywords_before

\* on_config has run after page hooks that appended language keywords.
C5_Witness ==
    /\ frame.op = "on_config"
    /\ frame.prev_op = "on_page_markdown"
    /\ Len(frame.keywords_before) > 19

\* C6: after on_config the stored base URL is the host's site_url when it gives
\* one and the literal default when it gives none (the key missing, or holding
\* None); so the og:url tag of a page rendered after on_config holds a string.
C6_SiteUrlFallsBack ==
    /\ frame.op = "on_config" =>
           site_url = IF frame.config.has_site_url /\ frame.config.site_url # None
                      THEN frame.config.site_url
                      ELSE Some(DefaultSiteUrl)
    /\ Rendered =>
           DefaultOf(frame.defaults, "og:url").content # None

\* C7: for a page whose stem is a key of the language table, the title is
\* '{DisplayName} Code Style Guide' and the keyword list is the one from before
\* the hook followed by the three keywords of the language, in their order.
C7_LanguagePage ==
    (Rendered /\ Stem \in DOMAIN LANGUAGES) =>
        /\ frame.title = LANGUAGES[Stem] \o " Code Style Guide"
        /\ heap[keywords] = frame.keywords_before \o
               << LANGUAGES[Stem] \o " Style Guide",
                  LANGUAGES[Stem] \o " Syntax Rules",
                  LANGUAGES[Stem] \o " Coding Conventions" >>

\* The page objective-c.md has been rendered: 'Objective-C Code Style Guide'.
C7_Witness ==
    /\ Rendered
    /\ Stem = "objective-c"
    /\ frame.title = "Objective-C Code Style Guide"
    /\ Len(heap[keywords]) = Len(frame.keywords_before) + 3

\* The first ':' of s, 0 when it has none.
FirstColon(s) ==
    LET hits == {i \in 1..Len(s) : s[i] = ":"}
    IN  IF hits = {} THEN 0 ELSE CHOOSE i \in hits : \A j \in hits : i <= j

\* The only '//' of s is the one right after the scheme's ':'.
NoDoubledSeparator(s) ==
    \A i \in 1..(Len(s) - 1) :
        (s[i] = "/" /\ s[i + 1] = "/") => (i >= 2 /\ i - 1 = FirstColon(s))

\* "https://styles.goatbytes.io/assets/img/goatstyles.png"
DefaultImageUrl == DefaultSiteUrl \o ImagePath

\* C8: for every base URL, the image URL of the og:image and twitter:image tags
\* has no doubled separator but the '//' after the scheme, and keeps that one; the
\* default base URL gives 'https://styles.goatbytes.io/assets/img/goatstyles.png'.
C8_ImageUrlNormalized ==
    (Rendered /\ site_url # None) =>
        /\ DefaultOf(frame.defaults, "og:image").content = Some(Str(frame.image))
        /\ DefaultOf(frame.defaults, "twitter:image").content = Some(Str(frame.image))
        /\ NoDoubledSeparator(frame.image)
        /\ SubSeq(frame.image, 1, 8) = <<"h", "t", "t", "p", "s", ":", "/", "/">>
        /\ site_url = Some(DefaultSiteUrl) => frame.image = DefaultImageUrl

\* C9: for a page whose stem is in neither table, the title is the generic one,
\* the description is the site's and the keyword list is as before the hook.
C9_UnknownPage ==
    (Rendered /\ Stem \notin DOMAIN PAGE_TITLES /\ Stem \notin DOMAIN LANGUAGES) =>
        /\ frame.title = "GoatStyles Documentation"
        /\ frame.description = SITE_DESC
        /\ heap[keywords] = frame.keywords_before

\* The page unknown-lang.md has been rendered after a language page of the
\* same build.
C9_Witness ==
    /\ Rendered
    /\ Stem = "unknown-lang"
    /\ Len(frame.keywords_before) > 19

\* The language pages among the pages of a call log, in call order.
LanguageCalls(calls) ==
    SelectSeq(calls, LAMBDA p :
        LET stem == Str(SplitextRoot(Basename(src_path[p])))
        IN  stem \in DOMAIN LANGUAGES /\ stem \notin DOMAIN PAGE_TITLES)

\* One block of three keywords for each page of calls, in order.
RECURSIVE Blocks(_)
Blocks(calls) ==
    IF calls = <<>> THEN <<>>
    ELSE LET lang == LANGUAGES[Str(SplitextRoot(Basename(src_path[Head(calls)])))]
         IN  << lang \o " Style Guide", lang \o " Syntax Rules",
                lang \o " Coding Conventions" >> \o Blocks(Tail(calls))

\* C10: once on_config has run, the keyword list is the default keywords followed
\* by one block of three keywords for each language page rendered since the last
\* on_config, in call order (19 + 3n entries); and the keywords tag generated for a
\* page is the ', '-join of the keyword list as that page's hook left it.
C10_KeywordsAccumulate ==
    builds > 0 =>
        /\ heap[keywords] = DEFAULT_KEYWORDS \o Blocks(LanguageCalls(log))
        /\ Len(heap[keywords]) = 19 + 3 * Len(LanguageCalls(log))
        /\ Rendered =>
               DefaultOf(frame.defaults, "keywords").content = Some(Join(", ", heap[keywords]))

\* After on_config, the same language page has been rendered twice and the
\* other language page once: three blocks, the repeated page's block twice.
C10_Witness ==
    /\ builds > 0
    /\ Rendered
    /\ Len(LanguageCalls(log)) = 3
    /\ \E i, j \in 1..Len(log) : i # j /\ log[i] = log[j]
    /\ \E i, j \in 1..Len(log) : log[i] # log[j]

====
